---------------------------- MODULE Spec2Model ----------------------------
(***************************************************************************)
(* kodi2jellyfin: one-way synchronisation of the Kodi watch history into   *)
(* the Jellyfin user-data table (src/src/index.ts).                        *)
(*                                                                         *)
(* Strings are sequences.  Paths and file names are sequences of one       *)
(* character strings; timestamps are sequences of tokens.  An optional     *)
(* value (a row that .first() may not find, a nullable column) is a        *)
(* sequence of length 0 or 1.                                              *)
(***************************************************************************)
EXTENDS Integers, Sequences, FiniteSets, TLC

(***************************************************************************)
(* Bounds of the model.                                                    *)
(***************************************************************************)
\* rows of the Kodi "files" table
MaxFiles == 2
\* seconds the wall clock may advance during the runs
MaxNow == 1
\* longest buffer handed to formatGUID
MaxGuidLen == 17
\* longest Kodi file name / Jellyfin path / item table of the matcher cases
MaxPatLen == 2
MaxPathLen == 3
MaxQItems == 2

VARIABLES
    files,       \* Kodi table "files": rows [strFilename, lastPlayed, playCount]
    items,       \* Jellyfin table "TypedBaseItems": rows [Path, UserDataKey]
    userDatas,   \* Jellyfin table "UserDatas", in row order
    pc,          \* position of main()
    watched,     \* result of the Kodi query
    i,           \* index in watched of kodiEntry
    jellyItem,   \* optional matched item
    existing,    \* optional existing user-data row
    data,        \* optional payload built for kodiEntry
    err,         \* the catch block has run
    failedAt,    \* index of the record whose store operation threw (0: none)
    kodiDb,      \* state of the Kodi connection
    jellyfinDb,  \* state of the Jellyfin connection
    now,         \* wall clock, seconds after ClockStart
    log,         \* store operations of the current run, in order
    dbBefore,    \* UserDatas when the current run started
    prevEnd,     \* optional UserDatas at the end of the previous run, when it completed
    guid,        \* argument of formatGUID
    uuid,        \* outcome of formatGUID
    qFile,       \* matcher case: kodiEntry.strFilename
    qItems,      \* matcher case: TypedBaseItems
    qResult      \* matcher case: outcome of the query

mainVars == <<files, items, userDatas, pc, watched, i, jellyItem, existing, data,
              err, failedAt, kodiDb, jellyfinDb, now, log, dbBefore, prevEnd>>
guidVars == <<guid, uuid>>
matchVars == <<qFile, qItems, qResult>>
vars == <<mainVars, guidVars, matchVars>>

Min(S) == CHOOSE x \in S : \A y \in S : x <= y

SeqsUpTo(S, n) == UNION {[1..k -> S] : k \in 0..n}

NonEmptySeqsUpTo(S, n) == UNION {[1..k -> S] : k \in 1..n}

(***************************************************************************)
(* formatGUID                                                              *)
(***************************************************************************)
HexDigits == <<"0", "1", "2", "3", "4", "5", "6", "7",
               "8", "9", "a", "b", "c", "d", "e", "f">>

\* Buffer.toString("hex"): two lowercase digits per byte, high nibble first
toHex(buf) ==
    [k \in 1..(2 * Len(buf)) |->
        IF k % 2 = 1 THEN HexDigits[(buf[(k + 1) \div 2] \div 16) + 1]
                     ELSE HexDigits[(buf[k \div 2] % 16) + 1]]

\* String.prototype.substring(from, to) for 0 <= from <= to
substring(s, from, to) ==
    SubSeq(s, Min({from, Len(s)}) + 1, Min({to, Len(s)}))

RECURSIVE join(_, _)
\* Array.prototype.join
join(parts, sep) ==
    IF parts = <<>> THEN <<>>
    ELSE IF Len(parts) = 1 THEN parts[1]
    ELSE parts[1] \o sep \o join(Tail(parts), sep)

Thrown == [state |-> "thrown", value |-> <<>>]

Returned(v) == [state |-> "returned", value |-> v]

\* faulty variant: the length is not checked
formatGUIDNoCheck(buf) ==
    LET guidStr == toHex(buf)
    IN  Returned(join(<<substring(guidStr, 0, 8), substring(guidStr, 8, 12),
                        substring(guidStr, 12, 16), substring(guidStr, 16, 20),
                        substring(guidStr, 20, 32)>>, <<"-">>))

formatGUID(buf) ==
    LET guidStr == toHex(buf)
    IN  IF Len(guidStr) # 32
        THEN Thrown
        ELSE Returned(join(<<substring(guidStr, 0, 8), substring(guidStr, 8, 12),
                             substring(guidStr, 12, 16), substring(guidStr, 16, 20),
                             substring(guidStr, 20, 32)>>, <<"-">>))

\* the buffers tried: n bytes seed, seed + step, ... modulo 256
GuidSeeds == {0, 9, 160, 255}

GuidSteps == {0, 1, 16, 17, 255}

GenBuf(n, seed, step) == [k \in 1..n |-> (seed + (k - 1) * step) % 256]

FormatGUIDCall ==
    /\ uuid.state = "pending"
    /\ uuid' = formatGUID(guid)
    /\ UNCHANGED <<guid, mainVars, matchVars>>

(***************************************************************************)
(* The matcher: TypedBaseItems .whereLike("Path", `%${strFilename}%`)      *)
(* .first().  knex emits a plain SQL LIKE for SQLite: in the pattern "%"   *)
(* stands for any run of characters and "_" for any one character, and     *)
(* SQLite compares ASCII letters without regard to case.                   *)
(***************************************************************************)
Upper == <<"A", "B", "C", "D", "E", "F", "G", "H", "I", "J", "K", "L", "M",
           "N", "O", "P", "Q", "R", "S", "T", "U", "V", "W", "X", "Y", "Z">>

Lower == <<"a", "b", "c", "d", "e", "f", "g", "h", "i", "j", "k", "l", "m",
           "n", "o", "p", "q", "r", "s", "t", "u", "v", "w", "x", "y", "z">>

Fold(c) ==
    IF \E k \in 1..Len(Upper) : Upper[k] = c
    THEN Lower[CHOOSE k \in 1..Len(Upper) : Upper[k] = c]
    ELSE c

RECURSIVE Like(_, _)
\* SQLite's  s LIKE pat
Like(pat, s) ==
    IF pat = <<>> THEN s = <<>>
    ELSE IF Head(pat) = "%"
         THEN Like(Tail(pat), s) \/ (s # <<>> /\ Like(pat, Tail(s)))
         ELSE /\ s # <<>>
              /\ (Head(pat) = "_" \/ Fold(Head(pat)) = Fold(Head(s)))
              /\ Like(Tail(pat), Tail(s))

\* the template literal `%${strFilename}%`
likePattern(strFilename) == <<"%">> \o strFilename \o <<"%">>

\* .first(): the first row of the result, in table order, if any
first(rows) == IF rows = <<>> THEN <<>> ELSE <<rows[1]>>

findJellyItem(tbl, strFilename) ==
    first(SelectSeq(tbl, LAMBDA it : Like(likePattern(strFilename), it.Path)))

\* the matcher cases: file names and paths over a small alphabet
QFileChars == {"a", "A", "b", "_", "%"}

QPathChars == {"a", "A", "b", "_"}

QKeys == <<"k1", "k2", "k3", "k4">>

QTables ==
    {[k \in 1..Len(ps) |-> [Path |-> ps[k], UserDataKey |-> QKeys[k]]] :
        ps \in SeqsUpTo(NonEmptySeqsUpTo(QPathChars, MaxPathLen), MaxQItems)}

MatchQuery ==
    /\ qResult.state = "pending"
    /\ qResult' = Returned(findJellyItem(qItems, qFile))
    /\ UNCHANGED <<qFile, qItems, mainVars, guidVars>>

(***************************************************************************)
(* The payload                                                             *)
(***************************************************************************)
Digits == <<"0", "1", "2", "3", "4", "5", "6", "7", "8", "9">>

Pad2(n) == <<Digits[(n \div 10) + 1], Digits[(n % 10) + 1]>>

\* the clock starts at 09:59:59 of the day of the runs
ClockStart == (9 * 3600) + (59 * 60) + 59

Today == "2023-01-02"

\* date-fns formatISO9075 of the instant t seconds into Today: "yyyy-MM-dd HH:mm:ss"
formatISO9075(t) ==
    <<Today, " ">> \o Pad2((t \div 3600) % 24) \o <<":">>
        \o Pad2((t \div 60) % 60) \o <<":">> \o Pad2(t % 60)

\* JavaScript truthiness of a nullable string: null and "" are falsy
Truthy(opt) == opt # <<>> /\ opt[1] # <<>>

\* faulty variant: the suffix is appended twice
lastPlayedDateTwice(kodiEntry, t) ==
    (IF Truthy(kodiEntry.lastPlayed) THEN kodiEntry.lastPlayed[1]
                                     ELSE formatISO9075(ClockStart + t))
        \o <<".000Z">> \o <<".000Z">>

\* (kodiEntry.lastPlayed || formatISO9075(new Date())) + ".000Z"
lastPlayedDate(kodiEntry, t) ==
    (IF Truthy(kodiEntry.lastPlayed) THEN kodiEntry.lastPlayed[1]
                                     ELSE formatISO9075(ClockStart + t))
        \o <<".000Z">>

\* faulty variant: the playCount of a row found is kept
buildDataKeepCount(kodiEntry, ex, t) ==
    [userId |-> 1, isFavorite |-> 0, played |-> 1, playbackPositionTicks |-> 0,
     playCount |-> IF ex # <<>> THEN ex[1].playCount ELSE kodiEntry.playCount,
     lastPlayedDate |-> lastPlayedDate(kodiEntry, t)]

\* const data = {...}; ex is the row found, which the payload does not read
buildData(kodiEntry, ex, t) ==
    [userId |-> 1, isFavorite |-> 0, played |-> 1, playbackPositionTicks |-> 0,
     playCount |-> kodiEntry.playCount,
     lastPlayedDate |-> lastPlayedDate(kodiEntry, t)]

(***************************************************************************)
(* The UserDatas table                                                     *)
(***************************************************************************)
\* value the store gives a column that an insert leaves out
ColumnDefault == "null"

\* faulty variant: the lookup finds nothing
findExistingNever(db, key) == <<>>

\* jellyfinDb("UserDatas").where("key", key).first()
findExisting(db, key) == first(SelectSeq(db, LAMBDA r : r.key = key))

\* .insert({key, ...data}): a new row, the other columns at their default
insert(db, key, d) ==
    Append(db, [key |-> key, userId |-> d.userId, isFavorite |-> d.isFavorite,
                played |-> d.played,
                playbackPositionTicks |-> d.playbackPositionTicks,
                playCount |-> d.playCount, lastPlayedDate |-> d.lastPlayedDate,
                other |-> ColumnDefault])

\* faulty variant: the row is replaced, its other columns reset
updateReplacesRow(db, key, d) ==
    [k \in DOMAIN db |->
        IF db[k].key = key
        THEN [key |-> key, userId |-> d.userId, isFavorite |-> d.isFavorite,
              played |-> d.played,
              playbackPositionTicks |-> d.playbackPositionTicks,
              playCount |-> d.playCount, lastPlayedDate |-> d.lastPlayedDate,
              other |-> ColumnDefault]
        ELSE db[k]]

\* .where("key", key).update({...data}): every row of that key, payload columns only
update(db, key, d) ==
    [k \in DOMAIN db |->
        IF db[k].key = key
        THEN [db[k] EXCEPT !.userId = d.userId, !.isFavorite = d.isFavorite,
                           !.played = d.played,
                           !.playbackPositionTicks = d.playbackPositionTicks,
                           !.playCount = d.playCount,
                           !.lastPlayedDate = d.lastPlayedDate]
        ELSE db[k]]

\* faulty variant: the else is missing
writeKindsBoth(ex) == IF ex # <<>> THEN <<"update", "insert">> ELSE <<"insert">>

\* if (existing) update else insert
writeKinds(ex) == IF ex # <<>> THEN <<"update">> ELSE <<"insert">>

applyWrite(db, kind, key, d) ==
    IF kind = "update" THEN update(db, key, d) ELSE insert(db, key, d)

RECURSIVE applyWrites(_, _, _, _)
applyWrites(db, kinds, key, d) ==
    IF kinds = <<>> THEN db
    ELSE applyWrites(applyWrite(db, Head(kinds), key, d), Tail(kinds), key, d)

(***************************************************************************)
(* The stores the runs start from                                          *)
(***************************************************************************)
\* "2023-01-01 10:00:00"
Played2023 == <<"2023-01-01", " ", "1", "0", ":", "0", "0", ":", "0", "0">>

File(name, lastPlayed, playCount) ==
    [strFilename |-> name, lastPlayed |-> lastPlayed, playCount |-> playCount]

\* rows the Kodi table is drawn from: null, empty and set lastPlayed, names that
\* match one item, the same item again, another item, no item, and an unwatched row
FilesPool ==
    { File(<<"s", "1">>, <<Played2023>>, 3),
      File(<<"_", "1">>, <<>>, 2),
      File(<<"s", "2">>, << <<>> >>, 1),
      File(<<"z">>, <<Played2023>>, 2),
      File(<<"u">>, <<Played2023>>, 0) }

\* tables of at most n rows of the pool, no row twice
FilesTables(n) ==
    {t \in SeqsUpTo(FilesPool, n) : \A a, b \in DOMAIN t : t[a] = t[b] => a = b}

Item(path, key) == [Path |-> path, UserDataKey |-> key]

\* tables of TypedBaseItems: distinct keys, and two items sharing a key
ItemTables ==
    { << Item(<<"/", "S", "1">>, "k1"), Item(<<"/", "s", "2">>, "k2") >>,
      << Item(<<"/", "s", "2">>, "k2"), Item(<<"/", "s", "1">>, "k1"),
         Item(<<"/", "s", "1", "b">>, "k1") >> }

\* a row written by Jellyfin itself before the runs
OldRow(key) ==
    [key |-> key, userId |-> 7, isFavorite |-> 1, played |-> 0,
     playbackPositionTicks |-> 500, playCount |-> 9,
     lastPlayedDate |-> <<"2020-05-05", " ", "0", "5", ":", "0", "5", ":", "0", "5", ".000Z">>,
     other |-> "rating"]

RowKeys == <<"k1", "k2", "k3">>

\* at most one row per key; the row of k3 belongs to no item of the tables
InitialUserDatas ==
    {SelectSeq([k \in 1..Len(RowKeys) |-> OldRow(RowKeys[k])],
               LAMBDA r : r.key \in ks \cup {"k3"}) : ks \in SUBSET {"k1", "k2"}}

(***************************************************************************)
(* main()                                                                  *)
(***************************************************************************)
LogEntry(rec, op, ok, key, d, t) ==
    [rec |-> rec, op |-> op, ok |-> ok, key |-> key, data |-> d, at |-> t]

\* what a match entry of the log notes: the key of the item found, "" for none
FoundKey(item) == IF item = <<>> THEN "" ELSE item[1].UserDataKey

\* after the body of the loop: the next record, or past the loop into finally
NextRecord ==
    /\ i' = i + 1
    /\ pc' = IF i + 1 <= Len(watched) THEN "match" ELSE "destroyKodi"

\* faulty variant: the error is swallowed and the loop goes on
ThrowAndContinue(k) ==
    /\ err' = TRUE
    /\ failedAt' = k
    /\ NextRecord

\* a rejected await inside try: control goes to catch, then finally
Throw(k) ==
    /\ err' = TRUE
    /\ failedAt' = k
    /\ pc' = "destroyKodi"
    /\ i' = i

\* kodiDb("files").where("playCount", ">", 0).select(...)
Query ==
    /\ pc = "query"
    /\ \/ /\ watched' = SelectSeq(files, LAMBDA f : f.playCount > 0)
          /\ i' = 1
          /\ pc' = IF watched' # <<>> THEN "match" ELSE "destroyKodi"
          /\ UNCHANGED <<err, failedAt>>
       \/ /\ err' = TRUE
          /\ pc' = "destroyKodi"
          /\ UNCHANGED <<watched, i, failedAt>>
    /\ UNCHANGED <<files, items, userDatas, jellyItem, existing, data, kodiDb,
                   jellyfinDb, now, log, dbBefore, prevEnd, guidVars, matchVars>>

\* the TypedBaseItems query of kodiEntry, and  if (!jellyItem) continue
Match ==
    /\ pc = "match"
    /\ \/ /\ jellyItem' = findJellyItem(items, watched[i].strFilename)
          /\ log' = Append(log, LogEntry(i, "match", TRUE, FoundKey(jellyItem'), <<>>, now))
          /\ IF jellyItem' = <<>>
             THEN NextRecord
             ELSE pc' = "lookup" /\ i' = i
          /\ UNCHANGED <<err, failedAt>>
       \/ /\ log' = Append(log, LogEntry(i, "match", FALSE, "", <<>>, now))
          /\ Throw(i)
          /\ UNCHANGED jellyItem
    /\ UNCHANGED <<files, items, userDatas, watched, existing, data, kodiDb,
                   jellyfinDb, now, dbBefore, prevEnd, guidVars, matchVars>>

\* the UserDatas lookup by key; the payload is built when it resolves
Lookup ==
    /\ pc = "lookup"
    /\ \/ /\ existing' = findExisting(userDatas, jellyItem[1].UserDataKey)
          /\ \E t \in now..MaxNow : now' = t
          /\ data' = <<buildData(watched[i], existing', now')>>
          /\ log' = Append(log, LogEntry(i, "lookup", TRUE,
                                         jellyItem[1].UserDataKey, <<>>, now'))
          /\ pc' = "write"
          /\ UNCHANGED <<i, err, failedAt>>
       \/ /\ log' = Append(log, LogEntry(i, "lookup", FALSE,
                                         jellyItem[1].UserDataKey, <<>>, now))
          /\ Throw(i)
          /\ UNCHANGED <<existing, data, now>>
    /\ UNCHANGED <<files, items, userDatas, watched, jellyItem, kodiDb,
                   jellyfinDb, dbBefore, prevEnd, guidVars, matchVars>>

\* log entries of the writes kinds, all of which succeeded
WriteEntries(kinds, key, t) ==
    [k \in 1..Len(kinds) |-> LogEntry(i, kinds[k], TRUE, key, data, t)]

\* the update or the insert of kodiEntry's payload
Write ==
    /\ pc = "write"
    /\ LET key   == jellyItem[1].UserDataKey
           kinds == writeKinds(existing)
       IN  \E n \in 0..Len(kinds) :
               /\ userDatas' = applyWrites(userDatas, SubSeq(kinds, 1, n), key, data[1])
               /\ IF n = Len(kinds)
                  THEN /\ log' = log \o WriteEntries(kinds, key, now)
                       /\ NextRecord
                       /\ UNCHANGED <<err, failedAt>>
                  ELSE /\ log' = log \o WriteEntries(SubSeq(kinds, 1, n), key, now)
                                     \o <<LogEntry(i, kinds[n + 1], FALSE, key, data, now)>>
                       /\ Throw(i)
    /\ UNCHANGED <<files, items, watched, jellyItem, existing, data, kodiDb,
                   jellyfinDb, now, dbBefore, prevEnd, guidVars, matchVars>>

\* finally: await kodiDb.destroy()
DestroyKodi ==
    /\ pc = "destroyKodi"
    /\ \/ kodiDb' = "destroyed" /\ pc' = "destroyJellyfin"
       \/ kodiDb' = "destroyFailed" /\ pc' = "done"
    /\ UNCHANGED <<files, items, userDatas, watched, i, jellyItem, existing, data,
                   err, failedAt, jellyfinDb, now, log, dbBefore, prevEnd,
                   guidVars, matchVars>>

\* finally: await jellyfinDb.destroy()
DestroyJellyfin ==
    /\ pc = "destroyJellyfin"
    /\ \/ jellyfinDb' = "destroyed"
       \/ jellyfinDb' = "destroyFailed"
    /\ pc' = "done"
    /\ UNCHANGED <<files, items, userDatas, watched, i, jellyItem, existing, data,
                   err, failedAt, kodiDb, now, log, dbBefore, prevEnd,
                   guidVars, matchVars>>

\* the pass of the run that has ended went through every record without an error
Completed == pc = "done" /\ ~err

\* the program is started again: module level, new connections, main()
Rerun ==
    /\ pc = "done"
    /\ pc' = "query"
    /\ watched' = <<>>
    /\ i' = 0
    /\ jellyItem' = <<>>
    /\ existing' = <<>>
    /\ data' = <<>>
    /\ err' = FALSE
    /\ failedAt' = 0
    /\ kodiDb' = "open"
    /\ jellyfinDb' = "open"
    /\ log' = <<>>
    /\ dbBefore' = userDatas
    /\ prevEnd' = IF Completed THEN <<userDatas>> ELSE <<>>
    /\ UNCHANGED <<files, items, userDatas, now, guidVars, matchVars>>

Init ==
    /\ files \in FilesTables(MaxFiles)
    /\ items \in ItemTables
    /\ userDatas \in InitialUserDatas
    /\ pc = "query"
    /\ watched = <<>>
    /\ i = 0
    /\ jellyItem = <<>>
    /\ existing = <<>>
    /\ data = <<>>
    /\ err = FALSE
    /\ failedAt = 0
    /\ kodiDb = "open"
    /\ jellyfinDb = "open"
    /\ now = 0
    /\ log = <<>>
    /\ dbBefore = userDatas
    /\ prevEnd = <<>>
    /\ guid = <<>>
    /\ uuid = Thrown
    /\ qFile = <<>>
    /\ qItems = <<>>
    /\ qResult = Thrown

Next ==
    \/ Query
    \/ Match
    \/ Lookup
    \/ Write
    \/ DestroyKodi
    \/ DestroyJellyfin
    \/ Rerun

Spec == Init /\ [][Next]_vars

Pending == [state |-> "pending", value |-> <<>>]

InitGuid ==
    /\ guid \in {GenBuf(n, seed, step) :
                    n \in 0..MaxGuidLen, seed \in GuidSeeds, step \in GuidSteps}
    /\ uuid = Pending
    /\ files = <<>>
    /\ items = <<>>
    /\ userDatas = <<>>
    /\ pc = "done"
    /\ watched = <<>>
    /\ i = 0
    /\ jellyItem = <<>>
    /\ existing = <<>>
    /\ data = <<>>
    /\ err = FALSE
    /\ failedAt = 0
    /\ kodiDb = "open"
    /\ jellyfinDb = "open"
    /\ now = 0
    /\ log = <<>>
    /\ dbBefore = <<>>
    /\ prevEnd = <<>>
    /\ qFile = <<>>
    /\ qItems = <<>>
    /\ qResult = Thrown

NextGuid == FormatGUIDCall

SpecGuid == InitGuid /\ [][NextGuid]_vars

InitMatch ==
    /\ qFile \in NonEmptySeqsUpTo(QFileChars, MaxPatLen)
    /\ qItems \in QTables
    /\ qResult = Pending
    /\ files = <<>>
    /\ items = <<>>
    /\ userDatas = <<>>
    /\ pc = "done"
    /\ watched = <<>>
    /\ i = 0
    /\ jellyItem = <<>>
    /\ existing = <<>>
    /\ data = <<>>
    /\ err = FALSE
    /\ failedAt = 0
    /\ kodiDb = "open"
    /\ jellyfinDb = "open"
    /\ now = 0
    /\ log = <<>>
    /\ dbBefore = <<>>
    /\ prevEnd = <<>>
    /\ guid = <<>>
    /\ uuid = Thrown

NextMatch == MatchQuery

SpecMatch == InitMatch /\ [][NextMatch]_vars

(***************************************************************************)
(* Properties                                                              *)
(***************************************************************************)
IsWrite(e) == e.op \in {"insert", "update"}

\* the run is past the loop, or never entered it
InFinally == pc \in {"destroyKodi", "destroyJellyfin", "done"}

\* the records whose turn in the loop has ended, normally or by a throw
Processed ==
    {r \in DOMAIN watched : IF InFinally THEN r <= i ELSE r < i}

MatchFound(r) == \E k \in DOMAIN log :
    log[k].rec = r /\ log[k].op = "match" /\ log[k].ok /\ log[k].key # ""

MatchNone(r) == \E k \in DOMAIN log :
    log[k].rec = r /\ log[k].op = "match" /\ log[k].ok /\ log[k].key = ""

LookupOk(r) == \E k \in DOMAIN log :
    log[k].rec = r /\ log[k].op = "lookup" /\ log[k].ok

WritesOf(r) == {k \in DOMAIN log : log[k].rec = r /\ IsWrite(log[k])}

RowsOf(db, key) == {k \in DOMAIN db : db[k].key = key}

MatchedKeys == {log[k].key : k \in {n \in DOMAIN log : log[n].op = "match" /\ log[n].key # ""}}

RecsOf(key) == {log[k].rec : k \in {n \in DOMAIN log : log[n].op = "match" /\ log[n].key = key}}

Max(S) == CHOOSE x \in S : \A y \in S : y <= x

FixedValues(r) ==
    /\ r.userId = 1
    /\ r.isFavorite = 0
    /\ r.played = 1
    /\ r.playbackPositionTicks = 0

\* C1: every userDataKey has at most one row of UserDatas, at every point of
\* every run, aborted runs and several records matching one item included.
C1_UniqueKey ==
    \A a, b \in DOMAIN userDatas :
        userDatas[a].key = userDatas[b].key => a = b

\* a run has ended in which two records matched one key that had no row: the
\* first inserted it, the second found it and updated it
C1_Witness ==
    /\ pc = "done"
    /\ \E a, b \in DOMAIN log :
          /\ a < b
          /\ log[a].op = "insert" /\ log[a].ok
          /\ log[b].op = "update" /\ log[b].ok
          /\ log[a].key = log[b].key
          /\ log[a].rec # log[b].rec

\* C2 as stated: a processed record without a match has no write and raises
\* no error; a processed record with a match has exactly one write.
C2_ExactlyOneWrite ==
    \A r \in Processed :
        /\ MatchNone(r) => WritesOf(r) = {} /\ failedAt # r
        /\ MatchFound(r) => Cardinality(WritesOf(r)) = 1

\* C2 amended: a processed record without a match has no write, raises no
\* error and the loop has moved past it; a processed record with a match has
\* at most one write, exactly one when its lookup succeeded and none when its
\* lookup failed; a record whose match query failed has no write.
C2_AtMostOneWrite ==
    \A r \in Processed :
        /\ MatchNone(r) => WritesOf(r) = {} /\ failedAt # r /\ i > r
        /\ MatchFound(r) =>
              /\ Cardinality(WritesOf(r)) <= 1
              /\ LookupOk(r) => Cardinality(WritesOf(r)) = 1
              /\ ~LookupOk(r) => WritesOf(r) = {} /\ failedAt = r
        /\ ~MatchNone(r) /\ ~MatchFound(r) => WritesOf(r) = {} /\ failedAt = r

\* a run of two records has ended without an error: one record matched nothing
\* and the other was written once, onto a row that existed
C2_Witness ==
    /\ Completed
    /\ \E r1, r2 \in Processed :
          /\ MatchNone(r1)
          /\ MatchFound(r2)
          /\ \E k \in WritesOf(r2) : log[k].op = "update"

\* the part of C3 that does not depend on which record the insert came from
C3_FinalRow(key) ==
    /\ RowsOf(userDatas, key) # {}
    /\ \A k \in RowsOf(userDatas, key) :
          /\ FixedValues(userDatas[k])
          /\ userDatas[k].playCount = watched[Max(RecsOf(key))].playCount

InsertsOf(key) == {k \in DOMAIN log : log[k].op = "insert" /\ log[k].key = key}

\* C3 as stated: after a run that completed, the row of every matched key
\* holds the fixed values and the playCount of the last record that matched
\* it; a row that did not exist before was created by exactly one insert, and
\* that insert carried these values.
C3_LastWriteWins ==
    Completed =>
        \A key \in MatchedKeys :
            /\ C3_FinalRow(key)
            /\ RowsOf(dbBefore, key) = {} =>
                  /\ Cardinality(InsertsOf(key)) = 1
                  /\ \A k \in InsertsOf(key) :
                        /\ FixedValues(log[k].data[1])
                        /\ log[k].data[1].playCount =
                              watched[Max(RecsOf(key))].playCount

\* C3 amended: as C3, but the one insert carried the fixed values and the
\* playCount of the first record that matched the key; a row that existed
\* before is reached by no insert.
C3_LastWriteWinsFirstInserts ==
    Completed =>
        \A key \in MatchedKeys :
            /\ C3_FinalRow(key)
            /\ RowsOf(dbBefore, key) = {} =>
                  /\ Cardinality(InsertsOf(key)) = 1
                  /\ \A k \in InsertsOf(key) :
                        /\ log[k].ok
                        /\ log[k].rec = Min(RecsOf(key))
                        /\ FixedValues(log[k].data[1])
                        /\ log[k].data[1].playCount =
                              watched[Min(RecsOf(key))].playCount
            /\ RowsOf(dbBefore, key) # {} => InsertsOf(key) = {}

\* a run has completed in which one key without a row was matched by two
\* records of different playCount, or a key without a row and a key with an
\* old row were both matched
C3_Witness ==
    /\ Completed
    /\ \E key \in MatchedKeys :
          /\ RowsOf(dbBefore, key) = {}
          /\ \/ \E r1, r2 \in RecsOf(key) :
                   watched[r1].playCount # watched[r2].playCount
             \/ \E other \in MatchedKeys :
                   \E k \in RowsOf(dbBefore, other) : dbBefore[k].playCount = 9

\* the step applies an update
UpdateStep ==
    /\ Len(log') > Len(log)
    /\ log'[Len(log')].op = "update"
    /\ log'[Len(log')].ok

\* C4: an update leaves the number and order of the rows, every row's key and
\* every column outside the payload as they were, gives the rows of the
\* updated key the payload, and changes no row of another key and no item.
C4_UpdateFrame ==
    [][UpdateStep =>
        LET e == log'[Len(log')]
        IN  /\ Len(userDatas') = Len(userDatas)
            /\ items' = items
            /\ RowsOf(userDatas, e.key) # {}
            /\ \A k \in DOMAIN userDatas :
                  /\ userDatas'[k].key = userDatas[k].key
                  /\ userDatas'[k].other = userDatas[k].other
                  /\ userDatas[k].key # e.key => userDatas'[k] = userDatas[k]
                  /\ userDatas[k].key = e.key =>
                        /\ userDatas'[k].userId = e.data[1].userId
                        /\ userDatas'[k].isFavorite = e.data[1].isFavorite
                        /\ userDatas'[k].played = e.data[1].played
                        /\ userDatas'[k].playbackPositionTicks =
                              e.data[1].playbackPositionTicks
                        /\ userDatas'[k].playCount = e.data[1].playCount
                        /\ userDatas'[k].lastPlayedDate = e.data[1].lastPlayedDate]_vars

\* an update has been applied to a row written by Jellyfin, whose column
\* outside the payload is set, while another such row is in the table
C4_Witness ==
    \E n \in DOMAIN log :
        /\ log[n].op = "update" /\ log[n].ok
        /\ \E k \in RowsOf(userDatas, log[n].key) :
              userDatas[k].other = "rating" /\ userDatas[k].played = 1
        /\ \E k \in DOMAIN userDatas :
              userDatas[k].key # log[n].key /\ userDatas[k] = OldRow(userDatas[k].key)

\* a run has completed right after a run that completed (the Kodi table and
\* the items never change)
SecondRun == Completed /\ prevEnd # <<>>

\* C5 as stated: the second of two completed runs in succession inserts
\* nothing and leaves every column of every row as the first run left it.
C5_Idempotent ==
    SecondRun =>
        /\ \A k \in DOMAIN log : log[k].op # "insert"
        /\ userDatas = prevEnd[1]

\* the record that last matched the key of row r in this run has no lastPlayed
FallbackRow(r) ==
    /\ r.key \in MatchedKeys
    /\ ~Truthy(watched[Max(RecsOf(r.key))].lastPlayed)

\* C5 amended: the second run inserts nothing and leaves every column of
\* every row as the first run left it, except lastPlayedDate in the rows whose
\* last matching record has no lastPlayed: there each run wrote its own
\* reading of the clock.
C5_IdempotentButFallback ==
    SecondRun =>
        /\ \A k \in DOMAIN log : log[k].op # "insert"
        /\ Len(userDatas) = Len(prevEnd[1])
        /\ \A k \in DOMAIN userDatas :
              /\ [userDatas[k] EXCEPT !.lastPlayedDate = <<>>]
                    = [prevEnd[1][k] EXCEPT !.lastPlayedDate = <<>>]
              /\ ~FallbackRow(userDatas[k]) =>
                    userDatas[k].lastPlayedDate = prevEnd[1][k].lastPlayedDate
              /\ FallbackRow(userDatas[k]) =>
                    \E t1, t2 \in 0..MaxNow :
                        /\ prevEnd[1][k].lastPlayedDate =
                              formatISO9075(ClockStart + t1) \o <<".000Z">>
                        /\ userDatas[k].lastPlayedDate =
                              formatISO9075(ClockStart + t2) \o <<".000Z">>

\* a second run has completed that wrote a record with lastPlayed and a
\* record without
C5_Witness ==
    /\ SecondRun
    /\ \E a, b \in DOMAIN log :
          /\ log[a].op = "update" /\ log[a].ok
          /\ log[b].op = "update" /\ log[b].ok
          /\ Truthy(watched[log[a].rec].lastPlayed)
          /\ ~Truthy(watched[log[b].rec].lastPlayed)

\* C6: when the run has ended, whichever way, the release of each of the two
\* connections has been carried out or at least attempted.
C6_BothReleased ==
    pc = "done" => kodiDb # "open" /\ jellyfinDb # "open"

RECURSIVE Replay(_, _)
\* the table after the applied writes of a log, in order
Replay(db, entries) ==
    IF entries = <<>> THEN db
    ELSE Replay(IF IsWrite(Head(entries)) /\ Head(entries).ok
                THEN applyWrite(db, Head(entries).op, Head(entries).key,
                                Head(entries).data[1])
                ELSE db,
                Tail(entries))

OpClass(e) == IF IsWrite(e) THEN "write" ELSE e.op

\* C7: the table always holds exactly the writes applied so far (a failure
\* undoes none); once an operation of record k has failed it is the last
\* operation of the run, so nothing is attempted for a later record and
\* nothing again for record k; no record has two match queries, two lookups
\* or two writes in a run.
C7_AbortKeepsWrites ==
    /\ userDatas = Replay(dbBefore, log)
    /\ \A a \in DOMAIN log :
          /\ ~log[a].ok => a = Len(log) /\ err /\ failedAt = log[a].rec
          /\ \A b \in (a + 1)..Len(log) :
                /\ log[a].rec <= log[b].rec
                /\ log[a].rec = log[b].rec => OpClass(log[a]) # OpClass(log[b])
    /\ failedAt > 0 => log # <<>> /\ ~log[Len(log)].ok
    /\ err => InFinally

\* the run has ended after the second record failed, and the write of the
\* first record is in the table
C7_Witness ==
    /\ pc = "done"
    /\ failedAt = 2
    /\ \E k \in WritesOf(1) :
          /\ log[k].ok
          /\ \E n \in RowsOf(userDatas, log[k].key) :
                userDatas[n].playCount = watched[1].playCount

\* C8: the lastPlayedDate of every write is the record's lastPlayed when it
\* has one, otherwise the clock read when the payload was built, formatted
\* "yyyy-MM-dd HH:mm:ss", with ".000Z" appended once; "2023-01-01 10:00:00"
\* is written as "2023-01-01 10:00:00.000Z", and a payload built at 09:59:59
\* of the day of the runs carries "2023-01-02 09:59:59.000Z".
C8_LastPlayedDate ==
    \A k \in DOMAIN log :
        IsWrite(log[k]) =>
            LET r == watched[log[k].rec]
                d == log[k].data[1].lastPlayedDate
            IN  /\ d[Len(d)] = ".000Z"
                /\ Truthy(r.lastPlayed) => SubSeq(d, 1, Len(d) - 1) = r.lastPlayed[1]
                /\ ~Truthy(r.lastPlayed) =>
                      /\ SubSeq(d, 1, Len(d) - 1) = formatISO9075(ClockStart + log[k].at)
                      /\ Len(d) = 11
                      /\ \A n \in 1..10 : d[n] # ".000Z"
                /\ r.lastPlayed = <<Played2023>> =>
                      d = <<"2023-01-01", " ", "1", "0", ":", "0", "0", ":", "0", "0", ".000Z">>
                /\ (~Truthy(r.lastPlayed) /\ log[k].at = 0) =>
                      d = <<"2023-01-02", " ", "0", "9", ":", "5", "9", ":", "5", "9", ".000Z">>
                /\ (~Truthy(r.lastPlayed) /\ log[k].at = 1) =>
                      d = <<"2023-01-02", " ", "1", "0", ":", "0", "0", ":", "0", "0", ".000Z">>

\* a run has written a record with lastPlayed and a record with an empty
\* lastPlayed, the latter after the clock had advanced
C8_Witness ==
    \E a, b \in DOMAIN log :
        /\ IsWrite(log[a]) /\ log[a].ok
        /\ IsWrite(log[b]) /\ log[b].ok
        /\ watched[log[a].rec].lastPlayed = <<Played2023>>
        /\ watched[log[b].rec].lastPlayed = << <<>> >>
        /\ log[b].at > 0

\* sub occurs in s, character for character
Contains(s, sub) ==
    \E k \in 0..(Len(s) - Len(sub)) : SubSeq(s, k + 1, k + Len(sub)) = sub

\* C9: the matcher returns an item exactly when some item's Path contains the
\* file name as a literal substring, and the item returned is such an item.
C9_LiteralSubstring ==
    qResult.state = "returned" =>
        /\ qResult.value # <<>> <=> \E k \in DOMAIN qItems : Contains(qItems[k].Path, qFile)
        /\ qResult.value # <<>> => Contains(qResult.value[1].Path, qFile)

HexValue(c) == (CHOOSE k \in 1..16 : HexDigits[k] = c) - 1

\* the bytes of a string of hexadecimal digits
ParseHex(h) ==
    [k \in 1..(Len(h) \div 2) |-> 16 * HexValue(h[2 * k - 1]) + HexValue(h[2 * k])]

HyphenAt == {9, 14, 19, 24}

\* C10: formatGUID of 16 bytes returns 36 characters, hyphens at 9, 14, 19 and
\* 24 and lowercase hexadecimal digits elsewhere, which decode to the 16
\* bytes; formatGUID of any other number of bytes throws.
C10_FormatGUID ==
    uuid.state # "pending" =>
        IF Len(guid) = 16
        THEN /\ uuid.state = "returned"
             /\ Len(uuid.value) = 36
             /\ \A k \in 1..36 :
                   IF k \in HyphenAt
                   THEN uuid.value[k] = "-"
                   ELSE \E n \in 1..16 : HexDigits[n] = uuid.value[k]
             /\ ParseHex(SelectSeq(uuid.value, LAMBDA c : c # "-")) = guid
        ELSE uuid = Thrown

\* formatGUID has returned for 16 bytes that are not all the same and use the
\* digits a to f
C10_Witness ==
    /\ uuid.state = "returned"
    /\ Len(guid) = 16
    /\ guid[1] # guid[2]
    /\ \E k \in 1..16 : guid[k] >= 160
=============================================================================
